---- MODULE Spec2Model ----
(***************************************************************************)
(* The csvfile lookup plugin, lib/ansible/plugins/lookup/csvfile.py.       *)
(*                                                                         *)
(* Text is modelled character by character: a Python string is a sequence  *)
(* of one-character strings, so that str.split(), str.split('='), int()    *)
(* and the csv field split are computed as the code computes them.         *)
(* to_bytes / to_text / to_native only change the string type of ASCII     *)
(* text and the alphabet used here is ASCII, so a value and its converted  *)
(* form are the same character sequence.  The files hold no quote          *)
(* character, so csv quoting never applies and a row is the line split at  *)
(* the delimiter.                                                          *)
(***************************************************************************)
EXTENDS Integers, Sequences, FiniteSets, TLC

VARIABLES
    terms,        \* run(): the `terms` argument of the call in progress
    pc,           \* run(): position in the call
    i,            \* run(): 1-based index of the term of the for loop (line 111)
    key,          \* run(): local `key`
    paramvals,    \* run(): local `paramvals`
    lookupfile,   \* run(): local `lookupfile`
    ret,          \* run(): local `ret`
    result,       \* what the call handed back to its caller (a list, or nothing)
    err,          \* the exception the call ended with ("" when none)
    openHandles,  \* file objects opened by read_csv and not yet closed, by term index
    parsed,       \* history: indexes of the terms whose parameters were parsed
    resolved,     \* history: indexes of the terms whose file was looked up
    opened,       \* history: indexes of the terms for which open() was called
    outcome,      \* history: what read_csv did for each term scanned so far
    src           \* history: for each element of ret, the index of the term that appended it

vars == <<terms, pc, i, key, paramvals, lookupfile, ret, result, err,
          openHandles, parsed, resolved, opened, outcome, src>>

(***************************************************************************)
(* Characters and strings                                                  *)
(***************************************************************************)
HT == "\t"
SP == " "

\* Python's None, and the value of a local that is not bound yet.  Neither is
\* a character sequence (their one element is not a character).
None == <<"None">>
Unbound == <<"unbound">>

IsSpace(c) == c \in {SP, HT}

\* str.split() with no argument: the maximal runs of non-whitespace characters.
RECURSIVE SplitWsFrom(_, _, _, _)
SplitWsFrom(s, k, cur, acc) ==
    IF k > Len(s)
    THEN IF cur = <<>> THEN acc ELSE Append(acc, cur)
    ELSE IF IsSpace(s[k])
         THEN SplitWsFrom(s, k + 1, <<>>, IF cur = <<>> THEN acc ELSE Append(acc, cur))
         ELSE SplitWsFrom(s, k + 1, Append(cur, s[k]), acc)

SplitWs(s) == SplitWsFrom(s, 1, <<>>, <<>>)

\* str.split(sep) for a one-character sep: every occurrence separates, empty
\* parts are kept, and the result always has at least one part.
RECURSIVE SplitOnFrom(_, _, _, _, _)
SplitOnFrom(s, sep, k, cur, acc) ==
    IF k > Len(s)
    THEN Append(acc, cur)
    ELSE IF s[k] = sep
         THEN SplitOnFrom(s, sep, k + 1, <<>>, Append(acc, cur))
         ELSE SplitOnFrom(s, sep, k + 1, Append(cur, s[k]), acc)

SplitOn(s, sep) == SplitOnFrom(s, sep, 1, <<>>, <<>>)

DigitChars == {"0", "1", "2", "3", "4", "5", "6", "7", "8", "9"}

DigitVal(c) ==
    CASE c = "0" -> 0 [] c = "1" -> 1 [] c = "2" -> 2 [] c = "3" -> 3 [] c = "4" -> 4
      [] c = "5" -> 5 [] c = "6" -> 6 [] c = "7" -> 7 [] c = "8" -> 8 [] c = "9" -> 9

\* int(s) for a string without whitespace: an optional sign and at least one digit.
IntBody(s) == IF s # <<>> /\ s[1] \in {"+", "-"} THEN Tail(s) ELSE s

IsIntLiteral(s) ==
    /\ IntBody(s) # <<>>
    /\ \A k \in DOMAIN IntBody(s) : IntBody(s)[k] \in DigitChars

RECURSIVE NatVal(_)
NatVal(s) == IF s = <<>> THEN 0 ELSE 10 * NatVal(SubSeq(s, 1, Len(s) - 1)) + DigitVal(s[Len(s)])

IntVal(s) == IF s[1] = "-" THEN 0 - NatVal(IntBody(s)) ELSE NatVal(IntBody(s))

\* list[n] in Python: n counts from the end when negative.
IndexInRange(row, n) == 0 - Len(row) <= n /\ n < Len(row)
PyIndex(row, n) == IF n >= 0 THEN row[n + 1] ELSE row[Len(row) + n + 1]

\* d[k] = v on a dict d.
DictSet(d, k, v) == (k :> v) @@ d

(***************************************************************************)
(* Option names and defaults (lines 115-121)                               *)
(***************************************************************************)
colN == <<"c", "o", "l">>
defaultN == <<"d", "e", "f", "a", "u", "l", "t">>
delimiterN == <<"d", "e", "l", "i", "m", "i", "t", "e", "r">>
fileN == <<"f", "i", "l", "e">>
encodingN == <<"e", "n", "c", "o", "d", "i", "n", "g">>

OptionNames == {colN, defaultN, delimiterN, fileN, encodingN}

TABWord == <<"T", "A", "B">>
AnsibleCsv == <<"a", "n", "s", "i", "b", "l", "e", ".", "c", "s", "v">>
Utf8 == <<"u", "t", "f", "-", "8">>

UnboundParamvals == [n \in OptionNames |-> Unbound]

DefaultParamvals ==
    (colN :> <<"1">>) @@ (defaultN :> None) @@ (delimiterN :> TABWord)
        @@ (fileN :> AnsibleCsv) @@ (encodingN :> Utf8)

\* As NewParamvals, with the dict built once and kept from term to term.
KeepParamvals(previous) ==
    IF previous = UnboundParamvals THEN DefaultParamvals ELSE previous

\* Line 115: every iteration binds paramvals to a new dict built from the
\* literal, whatever paramvals held before.
NewParamvals(previous) == DefaultParamvals

(***************************************************************************)
(* The files on disk                                                       *)
(***************************************************************************)
SearchRoot == <<"/">>
PathOf(name) == SearchRoot \o name

\* The default, tab-separated file.
AnsibleCsvLines ==
    << <<"A", HT, "x", HT, "y">>,
       <<"B", HT, "p", HT, "q">>,
       <<"A", HT, "z", HT, "w">>,
       <<"C", ",", "c", HT, "d">>,
       <<"D", "t", "d", HT, "k">>,
       <<"a", HT, "l">> >>

\* A tab-separated file with a blank line in it.
ELines ==
    << <<"B", HT, "1", HT, "2">>,
       <<>>,
       <<"A", HT, "3">> >>

FileE == <<"e">>
FileU == <<"u">>
FileM == <<"m">>

\* Files the search path finds; FileM is in no directory of the search path.
ExistingFiles == {AnsibleCsv, FileE, FileU}
\* Files open() can read; FileU exists and is not readable.
ReadablePaths == {PathOf(AnsibleCsv), PathOf(FileE)}

FileLines(path) ==
    IF path = PathOf(AnsibleCsv) THEN AnsibleCsvLines ELSE ELines

\* codecs.getreader(encoding) raises LookupError for an encoding it does not know.
KnownEncodings == {Utf8}

(***************************************************************************)
(* LookupBase.find_file_in_search_path                                     *)
(***************************************************************************)
find_file_in_search_path(needle) ==
    IF needle \in ExistingFiles
    THEN [ok |-> TRUE, path |-> PathOf(needle)]
    ELSE [ok |-> FALSE, path |-> None]

(***************************************************************************)
(* CSVReader: one row of the file                                          *)
(***************************************************************************)
\* csv.reader gives an empty list for a blank line.
CsvRow(line, delimiter) == IF line = <<>> THEN <<>> ELSE SplitOn(line, delimiter[1])

(***************************************************************************)
(* LookupModule.read_csv (lines 93-105)                                    *)
(***************************************************************************)
Returned(v) == [status |-> "return", val |-> v, exc |-> "", opened |-> TRUE]
Raised(e, o) == [status |-> "raise", val |-> None, exc |-> e, opened |-> o]

\* The for loop of lines 99-101, from line k of the file on.
RECURSIVE ScanRows(_, _, _, _, _, _)
ScanRows(lines, k, key_, delimiter, dflt, col) ==
    IF k > Len(lines)
    THEN Returned(dflt)
    ELSE LET row == CsvRow(lines[k], delimiter) IN
         IF row = <<>>
         THEN Raised("IndexError", TRUE)
         ELSE IF row[1] = key_
              THEN IF ~IsIntLiteral(col)
                   THEN Raised("ValueError", TRUE)
                   ELSE IF ~IndexInRange(row, IntVal(col))
                        THEN Raised("IndexError", TRUE)
                        ELSE Returned(PyIndex(row, IntVal(col)))
              ELSE ScanRows(lines, k + 1, key_, delimiter, dflt, col)

read_csv(filename, key_, delimiter, encoding, dflt, col) ==
    IF filename \notin ReadablePaths
    THEN Raised("IOError", FALSE)
    ELSE IF encoding \notin KnownEncodings
         THEN Raised("LookupError", TRUE)
         ELSE IF Len(delimiter) # 1
              THEN Raised("TypeError", TRUE)
              ELSE ScanRows(FileLines(filename), 1, key_, delimiter, dflt, col)

(***************************************************************************)
(* LookupModule.run: the parameter loop (lines 125-128)                    *)
(***************************************************************************)
Parsed(pv) == [ok |-> TRUE, exc |-> "", vals |-> pv]
ParseFailed(e, pv) == [ok |-> FALSE, exc |-> e, vals |-> pv]

\* As ParseParams, with a token that is not name=value for a known name
\* skipped instead of raised on.
RECURSIVE ParseParamsLenient(_, _)
ParseParamsLenient(tokens, pv) ==
    IF tokens = <<>>
    THEN Parsed(pv)
    ELSE LET parts == SplitOn(Head(tokens), "=") IN
         IF Len(parts) # 2 \/ parts[1] \notin DOMAIN pv
         THEN ParseParamsLenient(Tail(tokens), pv)
         ELSE ParseParamsLenient(Tail(tokens), DictSet(pv, parts[1], parts[2]))

RECURSIVE ParseParams(_, _)
ParseParams(tokens, pv) ==
    IF tokens = <<>>
    THEN Parsed(pv)
    ELSE LET parts == SplitOn(Head(tokens), "=") IN
         IF Len(parts) # 2
         THEN ParseFailed("ValueError", pv)
         ELSE IF parts[1] \notin DOMAIN pv
              THEN ParseFailed("AssertionError", pv)
              ELSE ParseParams(Tail(tokens), DictSet(pv, parts[1], parts[2]))

\* As TranslateDelimiter, with the TAB word passed on as it is.
KeepDelimiter(pv) == pv

\* Lines 132-133.
TranslateDelimiter(pv) ==
    IF pv[delimiterN] = TABWord THEN DictSet(pv, delimiterN, <<HT>>) ELSE pv

\* As AppendRet, with the value put at the front of the list.
PrependRet(r, v) == <<v>> \o r

\* ret.append(v), line 142.
AppendRet(r, v) == Append(r, v)

(***************************************************************************)
(* The terms a call may be given                                           *)
(***************************************************************************)
MaxTerms == 2

Opt(name, value) == name \o <<"=">> \o value

RECURSIVE JoinTokens(_)
JoinTokens(tokens) ==
    IF tokens = <<>> THEN <<>> ELSE <<SP>> \o Head(tokens) \o JoinTokens(Tail(tokens))

Term(k, tokens) == k \o JoinTokens(tokens)

TermPool ==
    { Term(<<"A">>, <<>>),
      Term(<<"B">>, <<>>),
      Term(<<"Z">>, <<>>),
      Term(<<"a">>, <<>>),
      Term(<<"A">>, <<Opt(colN, <<"2">>)>>),
      Term(<<"A">>, <<Opt(colN, <<"5">>)>>),
      Term(<<"A">>, <<Opt(colN, <<"-", "1">>)>>),
      Term(<<"A">>, <<Opt(colN, <<"x">>)>>),
      Term(<<"Z">>, <<Opt(defaultN, <<"d">>)>>),
      Term(<<"A">>, <<Opt(delimiterN, TABWord)>>),
      Term(<<"A">>, <<Opt(delimiterN, <<"t">>)>>),
      Term(<<"A">>, <<Opt(delimiterN, <<HT>>)>>),
      Term(<<"C">>, <<Opt(delimiterN, <<",">>)>>),
      Term(<<"A">>, <<Opt(fileN, FileE)>>),
      Term(<<"Z">>, <<Opt(fileN, FileE)>>),
      Term(<<"A">>, <<Opt(fileN, FileM)>>),
      Term(<<"A">>, <<Opt(fileN, FileU)>>),
      Term(<<"A">>, <<Opt(encodingN, <<"x">>)>>),
      Term(<<"A">>, <<colN \o <<"b", "a", "d">> >>),
      Term(<<"A">>, <<Opt(<<"b", "o", "g", "u", "s">>, <<"1">>)>>),
      Term(<<"A">>, <<Opt(colN, <<"1", "=", "2">>)>>),
      Term(<<"B">>, <<Opt(colN, <<"2">>), Opt(delimiterN, TABWord)>>),
      Term(<<"A">>, <<Opt(colN, <<"2">>), Opt(colN, <<"0">>)>>),
      Term(<<"a">>, <<Opt(colN, <<"2">>)>>),
      Term(<<"Z">>, <<Opt(defaultN, <<>>)>>),
      Term(<<"B">>, <<Opt(fileN, FileE)>>),
      Term(<<"A">>, <<Opt(delimiterN, <<"T", "T">>)>>),
      Term(<<"D">>, <<Opt(delimiterN, <<"t">>)>>),
      <<"B", HT, "c", "o", "l", "=", "2">>,
      <<SP>> }

RECURSIVE SeqsUpTo(_, _)
SeqsUpTo(S, n) ==
    IF n = 0 THEN {<<>>}
    ELSE LET shorter == SeqsUpTo(S, n - 1) IN
         shorter \cup {Append(s, x) : s \in {t \in shorter : Len(t) = n - 1}, x \in S}

TermLists == SeqsUpTo(TermPool, MaxTerms)

(***************************************************************************)
(* The state machine                                                       *)
(***************************************************************************)
NoResult == <<None>>

Init ==
    /\ terms = <<>>
    /\ pc = "idle"
    /\ i = 1
    /\ key = Unbound
    /\ paramvals = UnboundParamvals
    /\ lookupfile = Unbound
    /\ ret = <<>>
    /\ result = NoResult
    /\ err = ""
    /\ openHandles = {}
    /\ parsed = {}
    /\ resolved = {}
    /\ opened = {}
    /\ outcome = <<>>
    /\ src = <<>>

\* A call run(terms): line 109.
Run ==
    /\ pc = "idle"
    /\ \E ts \in TermLists : terms' = ts
    /\ pc' = "for"
    /\ ret' = <<>>
    /\ UNCHANGED <<i, key, paramvals, lookupfile, result, err, openHandles,
                   parsed, resolved, opened, outcome, src>>

\* As Fail, with the error swallowed and the values gathered so far handed back.
FailWithPartialResult(e) ==
    /\ pc' = "returned"
    /\ err' = e
    /\ result' = ret

\* raise (lines 103 and 130, and the exceptions run() does not catch): the
\* call ends with exception e and hands nothing back.
Fail(e) ==
    /\ pc' = "failed"
    /\ err' = e
    /\ result' = NoResult

\* Lines 112-130 for the term of index i.
ParseTerm ==
    /\ pc = "for"
    /\ i <= Len(terms)
    /\ parsed' = parsed \cup {i}
    /\ LET params == SplitWs(terms[i]) IN
       IF params = <<>>
       THEN /\ Fail("IndexError")
            /\ UNCHANGED <<key, paramvals>>
       ELSE LET p == ParseParams(Tail(params), NewParamvals(paramvals)) IN
            /\ key' = params[1]
            /\ paramvals' = p.vals
            /\ IF p.ok
               THEN pc' = "parsed" /\ UNCHANGED <<err, result>>
               ELSE Fail("AnsibleError")
    /\ UNCHANGED <<terms, i, lookupfile, ret, openHandles, resolved, opened, outcome, src>>

\* Lines 132-135.
ResolveFile ==
    /\ pc = "parsed"
    /\ resolved' = resolved \cup {i}
    /\ paramvals' = TranslateDelimiter(paramvals)
    /\ LET f == find_file_in_search_path(paramvals[fileN]) IN
       IF f.ok
       THEN /\ lookupfile' = f.path
            /\ pc' = "resolved"
            /\ UNCHANGED <<err, result>>
       ELSE /\ Fail("AnsibleError")
            /\ UNCHANGED lookupfile
    /\ UNCHANGED <<terms, i, key, ret, openHandles, parsed, opened, outcome, src>>

\* Lines 136-142: read_csv, and the append of its value.  read_csv opens the
\* file and has no close() and no with block: the file object is left to the
\* runtime.  When read_csv returns, its frame is gone, and the runtime may
\* finalize the file object at once (reference counting) or later (a tracing
\* collector).  When read_csv raises, the traceback of the exception refers to
\* the frame and so to the file object, which stays open while the exception
\* travels up through run().  The value read_csv returns is a text field, the
\* default string or None, never a MutableSequence, so line 142 is the append
\* that runs.
ReadCsv ==
    /\ pc = "resolved"
    /\ LET var == read_csv(lookupfile, key, paramvals[delimiterN], paramvals[encodingN],
                           paramvals[defaultN], paramvals[colN]) IN
       /\ outcome' = Append(outcome, var)
       /\ opened' = opened \cup {i}
       /\ openHandles' \in
              IF ~var.opened THEN {openHandles}
              ELSE IF var.status = "raise" THEN {openHandles \cup {i}}
              ELSE {openHandles, openHandles \cup {i}}
       /\ IF var.status = "raise"
          THEN /\ Fail("AnsibleError")
               /\ UNCHANGED <<i, ret, src>>
          ELSE /\ pc' = "for"
               /\ i' = i + 1
               /\ UNCHANGED <<err, result>>
               /\ IF var.val # None
                  THEN ret' = AppendRet(ret, var.val) /\ src' = Append(src, i)
                  ELSE UNCHANGED <<ret, src>>
    /\ UNCHANGED <<terms, key, paramvals, lookupfile, parsed, resolved>>

\* Line 143.
Return ==
    /\ pc = "for"
    /\ i > Len(terms)
    /\ pc' = "returned"
    /\ result' = ret
    /\ UNCHANGED <<terms, i, key, paramvals, lookupfile, ret, err, openHandles,
                   parsed, resolved, opened, outcome, src>>

\* The runtime finalizes the file objects nothing refers to any more.
Finalize ==
    /\ openHandles # {}
    /\ openHandles' = {}
    /\ UNCHANGED <<terms, pc, i, key, paramvals, lookupfile, ret, result, err,
                   parsed, resolved, opened, outcome, src>>

\* The caller is done with the call: its frame and locals are gone, and the
\* plugin object keeps nothing from it.
Discard ==
    /\ pc \in {"returned", "failed"}
    /\ openHandles = {}
    /\ terms' = <<>>
    /\ pc' = "idle"
    /\ i' = 1
    /\ key' = Unbound
    /\ paramvals' = UnboundParamvals
    /\ lookupfile' = Unbound
    /\ ret' = <<>>
    /\ result' = NoResult
    /\ err' = ""
    /\ parsed' = {}
    /\ resolved' = {}
    /\ opened' = {}
    /\ outcome' = <<>>
    /\ src' = <<>>
    /\ UNCHANGED openHandles

Next ==
    \/ Run
    \/ ParseTerm
    \/ ResolveFile
    \/ ReadCsv
    \/ Return
    \/ Finalize
    \/ Discard

Spec == Init /\ [][Next]_vars

(***************************************************************************)
(* Vocabulary of the properties                                            *)
(***************************************************************************)
Last(s) == s[Len(s)]

\* The tokens of a term after its key.
OptionTokens(term) == LET toks == SplitWs(term) IN IF toks = <<>> THEN <<>> ELSE Tail(toks)

\* The positions of "=" in a token.
EqPositions(tok) == {p \in DOMAIN tok : tok[p] = "="}

\* A token is name=value with exactly one "=" and one of the five names.
WellFormedToken(tok) ==
    /\ Cardinality(EqPositions(tok)) = 1
    /\ LET p == CHOOSE q \in EqPositions(tok) : TRUE IN
       SubSeq(tok, 1, p - 1) \in
           { <<"c", "o", "l">>,
             <<"d", "e", "f", "a", "u", "l", "t">>,
             <<"d", "e", "l", "i", "m", "i", "t", "e", "r">>,
             <<"f", "i", "l", "e">>,
             <<"e", "n", "c", "o", "d", "i", "n", "g">> }

HasBadToken(term) ==
    \E k \in DOMAIN OptionTokens(term) : ~WellFormedToken(OptionTokens(term)[k])

\* The positions of the tokens of a term that give option n.
TokensNaming(term, n) ==
    {k \in DOMAIN OptionTokens(term) :
        /\ Len(OptionTokens(term)[k]) > Len(n)
        /\ SubSeq(OptionTokens(term)[k], 1, Len(n) + 1) = n \o <<"=">>}

Named(term, n) == TokensNaming(term, n) # {}

\* The value the last token naming n gives it.
LastValue(term, n) ==
    LET k == CHOOSE m \in TokensNaming(term, n) : \A o \in TokensNaming(term, n) : o <= m
        tok == OptionTokens(term)[k]
    IN  SubSeq(tok, Len(n) + 2, Len(tok))

\* read_csv has just run for a term, whose key, paramvals and lookupfile the
\* state still holds.
JustScanned ==
    /\ outcome # <<>>
    /\ pc \in {"for", "returned", "failed"}
    /\ Len(outcome) = IF pc = "failed" THEN i ELSE i - 1

ScannedTerm == terms[Len(outcome)]

\* The file of the scanned term could be opened and read as rows.
FileWasRead ==
    /\ lookupfile \in ReadablePaths
    /\ paramvals[encodingN] \in KnownEncodings
    /\ Len(paramvals[delimiterN]) = 1

RowsRead ==
    [k \in DOMAIN FileLines(lookupfile) |->
        CsvRow(FileLines(lookupfile)[k], paramvals[delimiterN])]

MatchingRows == {k \in DOMAIN RowsRead : RowsRead[k] # <<>> /\ RowsRead[k][1] = key}

FirstMatch == RowsRead[CHOOSE k \in MatchingRows : \A m \in MatchingRows : k <= m]

\* col is a non-negative integer below the number of fields of the row.
ColWithin(row) ==
    /\ IsIntLiteral(paramvals[colN])
    /\ IntVal(paramvals[colN]) >= 0
    /\ IntVal(paramvals[colN]) < Len(row)

\* Term j of the call has been dealt with, and what it came to.
TermDone(j) == j < i \/ (j = i /\ pc = "failed")
TermResult(j) == IF j = i /\ pc = "failed" THEN <<"error">> ELSE outcome[j].val

\* t2 is t1 with one occurrence of the characters old replaced by new.
IsReplacement(t1, t2, old, new) ==
    \E p \in 1..Len(t1) :
        /\ p + Len(old) - 1 <= Len(t1)
        /\ SubSeq(t1, p, p + Len(old) - 1) = old
        /\ t2 = SubSeq(t1, 1, p - 1) \o new \o SubSeq(t1, p + Len(old), Len(t1))

DelimiterTAB == Opt(delimiterN, TABWord)
DelimiterHT == Opt(delimiterN, <<HT>>)
DelimiterT == Opt(delimiterN, <<"t">>)

(***************************************************************************)
(* Properties                                                              *)
(***************************************************************************)

\* C1: when the key equals field 0 of at least one row of the file, read_csv
\* returns the field at the column index col of the first such row.
C1_FirstMatchReturned ==
    (JustScanned /\ FileWasRead /\ MatchingRows # {} /\ ColWithin(FirstMatch))
        => /\ Last(outcome).status = "return"
           /\ Last(outcome).val = FirstMatch[IntVal(paramvals[colN]) + 1]

\* C2: when the key equals field 0 of no row, the term does not error and
\* appends the configured default to the result list, the empty string when
\* the term gives no default.
C2_AbsentKeyGivesDefault ==
    (JustScanned /\ FileWasRead /\ MatchingRows = {})
        => /\ pc # "failed"
           /\ src # <<>>
           /\ Last(src) = Len(outcome)
           /\ Last(ret) = IF Named(ScannedTerm, defaultN)
                          THEN LastValue(ScannedTerm, defaultN)
                          ELSE <<>>

\* C3: when a term errors the call fails at that term: no list is handed
\* back, not even the values of the earlier terms, and no later term is
\* parsed, resolved or scanned.
C3_ErrorFailsWholeCall ==
    err # ""
        => /\ pc = "failed"
           /\ result = NoResult
           /\ parsed = 1..i
           /\ resolved \subseteq 1..i
           /\ opened \subseteq 1..i
           /\ Len(outcome) <= i

C3_Witness == pc = "failed" /\ err = "AnsibleError" /\ ret # <<>> /\ result = NoResult

\* C4: the terms are processed in input order and the result list keeps that
\* order: the values of ret come from terms of increasing index, each is the
\* value read for its term, and terms A, B on the default file give x, p.
C4_ResultsInTermOrder ==
    /\ parsed \in {1..n : n \in 0..Len(terms)}
    /\ Len(src) = Len(ret)
    /\ \A a, b \in DOMAIN src : a < b => src[a] < src[b]
    /\ \A a \in DOMAIN ret : src[a] \in DOMAIN outcome /\ ret[a] = outcome[src[a]].val
    /\ pc = "returned" => result = ret
    /\ (pc = "returned" /\ terms = << <<"A">>, <<"B">> >>) => result = << <<"x">>, <<"p">> >>

C4_Witness ==
    /\ pc = "returned"
    /\ terms = << <<"A">>, <<"B">> >>
    /\ result = << <<"x">>, <<"p">> >>

\* C5: a token after the key that is not name=value with exactly one "=" and
\* a known name makes the whole call fail with a lookup error, before any
\* file is resolved or opened for that term.
C5_BadTokenFailsCall ==
    \A j \in DOMAIN terms :
        HasBadToken(terms[j]) =>
            /\ j \notin resolved
            /\ j \notin opened
            /\ j \in parsed =>
                 (pc = "failed" /\ err = "AnsibleError" /\ i = j /\ result = NoResult)

C5_Witness == pc = "failed" /\ i > 1 /\ i \in parsed /\ HasBadToken(terms[i])

\* C6: when a row matches the key, the lookup fails unless col is a
\* non-negative integer below the number of fields of the matched row.
C6_BadColFails ==
    (JustScanned /\ FileWasRead /\ MatchingRows # {} /\ ~ColWithin(FirstMatch))
        => /\ Last(outcome).status = "raise"
           /\ pc = "failed"

\* C7: the file opened for a term is closed before the processing of that term
\* ends, on every exit path: no file opened by read_csv is open when the next
\* term starts, nor when the call returns or fails.
C7_ClosedOnEveryExit ==
    pc \in {"for", "parsed", "resolved", "returned", "failed"} => openHandles = {}

\* C8, as stated: a term with delimiter=TAB, or with no delimiter, gives what
\* the same term gives with a horizontal tab character after delimiter=.
C8_TabCharacterInTerm ==
    \A j, k \in DOMAIN terms :
        ( /\ TermDone(j)
          /\ TermDone(k)
          /\ \/ IsReplacement(terms[j], terms[k], DelimiterTAB, DelimiterHT)
             \/ /\ SplitWs(terms[j]) # <<>>
                /\ ~Named(terms[j], delimiterN)
                /\ terms[k] = terms[j] \o <<SP>> \o DelimiterHT )
            => TermResult(j) = TermResult(k)

\* C8, amended: a term whose delimiter is TAB, or that names no delimiter, is
\* scanned with the horizontal tab as separator: it gives what read_csv gives
\* when called with a tab character as delimiter.  A tab character inside a
\* term ends the token, so delimiter=<tab> is an empty delimiter, which
\* read_csv rejects.
C8_TabWordScansWithTab ==
    JustScanned =>
        /\ (~Named(ScannedTerm, delimiterN) \/ LastValue(ScannedTerm, delimiterN) = TABWord)
              => Last(outcome) = read_csv(lookupfile, key, <<HT>>, paramvals[encodingN],
                                          paramvals[defaultN], paramvals[colN])
        /\ (Named(ScannedTerm, delimiterN) /\ LastValue(ScannedTerm, delimiterN) = <<>>)
              => Last(outcome).status = "raise"

C8_Witness ==
    /\ JustScanned
    /\ Named(ScannedTerm, delimiterN)
    /\ LastValue(ScannedTerm, delimiterN) = TABWord
    /\ Last(outcome).status = "return"
    /\ Last(outcome).val = <<"x">>

\* C9: a term with delimiter=t gives what the same term gives with
\* delimiter=TAB.
C9_LetterTMeansTab ==
    \A j, k \in DOMAIN terms :
        (TermDone(j) /\ TermDone(k) /\ IsReplacement(terms[j], terms[k], DelimiterTAB, DelimiterT))
            => TermResult(j) = TermResult(k)

====
